---- MODULE Spec2Model ----
(***************************************************************************)
(* Model of the resilient device-command layer of homeymind:               *)
(*   - app/core/circuit_breaker.py  CircuitBreaker (one shared breaker,    *)
(*     several asyncio tasks calling execute on it)                        *)
(*   - app/agents/device_controller.py  DeviceController.process           *)
(*   - agents/coordinator_agent.py  approval rules and process             *)
(*   - app/core/mqtt_client.py, homey/mqtt_client.py  MQTTClient           *)
(*   - homeymind-ui/backend/main.py  the chat confirmation flow            *)
(* Time is counted in units of 0.1 s, the multiplier of the retry wait.    *)
(***************************************************************************)
EXTENDS Integers, Sequences, FiniteSets, TLC

\* ---------------------------------------------------------------- bounds
NumCallers == 2
MaxTime == 4
max_delay == 2
open_timeout == 2
success_threshold == 2
MaxActions == 2
MaxRules == 2

\* ------------------------------------------------------ program constants
WaitMultiplier == 1
WaitMax == 10

Callers == 1..NumCallers

VARIABLES
    state,              \* CircuitBreaker._state
    last_failure_time,  \* CircuitBreaker._last_failure_time
    success_count,      \* CircuitBreaker._success_count
    now,                \* time.time()
    calls,              \* per task: where its execute call stands
    lastChange,         \* the last state_change notification of _set_state
    dcIn,               \* DeviceController.process: input_data
    dcOut,              \* DeviceController.process: the returned dictionary
    mqttCalls,          \* calls made on the messaging client by process
    apRules,            \* CoordinatorAgent.auto_approval_rules
    apFlag,             \* the configured require_confirmation
    apAsk,              \* the last approval question and its answer
    mqBreakers,         \* MQTTClient.publish_breaker and .subscribe_breaker
    mqNow,              \* time.time() for the MQTTClient
    mqCalls,            \* per task: where its publish or subscribe stands
    lcHomey,            \* homey MQTTClient: connected flag and broker link
    lcCore,             \* app.core MQTTClient: broker link and network loop
    lcLast,             \* the last connect / disconnect call and its effect
    coRun,              \* the last call of CoordinatorAgent.process
    chPending,          \* backend pending_confirmations: id -> its future
    chWait,             \* per confirmation id: the wait of event_generator
    chLast              \* the last confirm request and its answer

cbVars == <<state, last_failure_time, success_count, now, calls, lastChange>>
dcVars == <<dcIn, dcOut, mqttCalls>>
apVars == <<apRules, apFlag, apAsk>>
mqVars == <<mqBreakers, mqNow, mqCalls>>
lcVars == <<lcHomey, lcCore, lcLast>>
coVars == <<coRun>>
chVars == <<chPending, chWait, chLast>>
vars == <<state, last_failure_time, success_count, now, calls, lastChange,
          dcIn, dcOut, mqttCalls, apRules, apFlag, apAsk,
          mqBreakers, mqNow, mqCalls, lcHomey, lcCore, lcLast, coRun,
          chPending, chWait, chLast>>

\* what the steps of the shared breaker leave alone
notCbVars == <<dcVars, apVars, mqVars, lcVars, coVars, chVars>>

\* what a call of DeviceController.process leaves alone
notDcVars == <<cbVars, apVars, mqVars, lcVars, coVars, chVars>>

\* what the approval questions leave alone
notApVars == <<cbVars, dcVars, mqVars, lcVars, coVars, chVars>>

\* what publish and subscribe leave alone
notMqVars == <<cbVars, dcVars, apVars, lcVars, coVars, chVars>>

\* what connect and disconnect leave alone
notLcVars == <<cbVars, dcVars, apVars, mqVars, coVars, chVars>>

\* what a call of CoordinatorAgent.process leaves alone
notCoVars == <<cbVars, dcVars, mqVars, lcVars, apAsk, chVars>>

\* what the chat confirmation flow leaves alone
notChVars == <<cbVars, dcVars, apVars, mqVars, lcVars, coVars>>

\* ============================================================ CircuitBreaker

States == {"closed", "open", "half-open"}

\* how an execute call ended
Outcomes == {"none", "result", "CircuitBreakerOpen", "CircuitBreakerError",
             "OperationError"}

\* a task that has not called execute yet
IdleCall ==
    [pc |-> "idle", outcome |-> "none", began |-> "closed", start |-> 0,
     invocations |-> 0, wake |-> 0, err |-> "none"]

\* _should_try_half_open with the timeout one unit short
should_try_half_open_early ==
    IF state = "open"
    THEN now - last_failure_time >= open_timeout - 1
    ELSE FALSE

\* _should_try_half_open with > for >=
should_try_half_open_late ==
    IF state = "open"
    THEN now - last_failure_time > open_timeout
    ELSE FALSE

\* _should_try_half_open
should_try_half_open ==
    IF state = "open"
    THEN now - last_failure_time >= open_timeout
    ELSE FALSE

\* _set_state: the new state, and the notification it always writes
set_state(new_state) ==
    [state |-> new_state, notice |-> <<state, new_state>>]

\* _update_success_count with > for >=
update_success_count_late ==
    IF success_count + 1 > success_threshold
    THEN [count |-> 0, set |-> set_state("closed")]
    ELSE [count |-> success_count + 1,
          set |-> [state |-> state, notice |-> lastChange]]

\* _update_success_count that starts counting again at the threshold without
\* closing the breaker
update_success_count_unclosed ==
    IF success_count + 1 >= success_threshold
    THEN [count |-> 0, set |-> [state |-> state, notice |-> lastChange]]
    ELSE [count |-> success_count + 1,
          set |-> [state |-> state, notice |-> lastChange]]

\* _update_success_count, for the current success_count
update_success_count ==
    IF success_count + 1 >= success_threshold
    THEN [count |-> 0, set |-> set_state("closed")]
    ELSE [count |-> success_count + 1,
          set |-> [state |-> state, notice |-> lastChange]]

\* a success branch that counts the success whatever the state
on_success_counting ==
    IF state = "half-open"
    THEN update_success_count
    ELSE [count |-> success_count + 1, set |-> set_state("closed")]

\* lines 108-111: what a returned result does to the breaker
on_success ==
    IF state = "half-open"
    THEN update_success_count
    ELSE [count |-> success_count, set |-> set_state("closed")]

\* an except block that reopens a half-open breaker only
except_state_half_open_only == IF state = "half-open" THEN "open" ELSE state

\* lines 145-148: the state the except block sets
except_state == "open"

\* an except block that keeps the success counter
except_count_kept == success_count

\* line 124: the value the except block gives the success counter
except_count == 0

\* the exception execute raises from its except block
except_raises == "CircuitBreakerError"

Pow2(n) == IF n <= 0 THEN 1 ELSE IF n = 1 THEN 2 ELSE IF n = 2 THEN 4
           ELSE IF n = 3 THEN 8 ELSE 16

Min(a, b) == IF a <= b THEN a ELSE b

\* wait_exponential(multiplier=0.1, max=1.0) after the attempt-th attempt
wait_exponential(attempt) == Min(WaitMultiplier * Pow2(attempt - 1), WaitMax)

\* stop_after_delay(max_delay), evaluated when an attempt has failed
stop_after_delay(c) == now - calls[c].start >= max_delay

\* a rejection raised inside the try block, which the except block would
\* record as a failure
Execute_Reject_counted(c) ==
    /\ calls[c].pc \in {"idle", "done"}
    /\ state = "open"
    /\ ~should_try_half_open
    /\ last_failure_time' = now
    /\ success_count' = 0
    /\ state' = "open"
    /\ calls' = [calls EXCEPT ![c] =
           [IdleCall EXCEPT !.pc = "done", !.outcome = "CircuitBreakerOpen",
                            !.began = state]]
    /\ UNCHANGED <<now, lastChange>>
    /\ UNCHANGED notCbVars

\* execute, lines 84-94: an open breaker inside its timeout rejects the call
Execute_Reject(c) ==
    /\ calls[c].pc \in {"idle", "done"}
    /\ state = "open"
    /\ ~should_try_half_open
    /\ calls' = [calls EXCEPT ![c] =
           [IdleCall EXCEPT !.pc = "done", !.outcome = "CircuitBreakerOpen",
                            !.began = state]]
    /\ UNCHANGED <<state, last_failure_time, success_count, now, lastChange>>
    /\ UNCHANGED notCbVars

\* execute, lines 84-86 and 96-106: the call is admitted and the operation
\* is invoked for the first time
Execute_Admit(c) ==
    /\ calls[c].pc \in {"idle", "done"}
    /\ state = "open" => should_try_half_open
    /\ IF state = "open"
       THEN /\ state' = set_state("half-open").state
            /\ lastChange' = set_state("half-open").notice
       ELSE UNCHANGED <<state, lastChange>>
    /\ calls' = [calls EXCEPT ![c] =
           [IdleCall EXCEPT !.pc = "running", !.began = state,
                            !.start = now, !.invocations = 1]]
    /\ UNCHANGED <<last_failure_time, success_count, now>>
    /\ UNCHANGED notCbVars

\* execute, lines 106-120: the operation returned a result
Execute_Success(c) ==
    /\ calls[c].pc = "running"
    /\ state' = on_success.set.state
    /\ lastChange' = on_success.set.notice
    /\ success_count' = on_success.count
    /\ calls' = [calls EXCEPT ![c] =
           [@ EXCEPT !.pc = "done", !.outcome = "result", !.start = 0,
                     !.wake = 0]]
    /\ UNCHANGED <<last_failure_time, now>>
    /\ UNCHANGED notCbVars

\* execute, lines 122-150: the except block
Except(c, kind) ==
    /\ last_failure_time' = now
    /\ success_count' = except_count
    /\ state' = set_state(except_state).state
    /\ lastChange' = set_state(except_state).notice
    /\ calls' = [calls EXCEPT ![c] =
           [@ EXCEPT !.pc = "done", !.outcome = except_raises, !.start = 0,
                     !.wake = 0, !.err = kind]]
    /\ UNCHANGED now
    /\ UNCHANGED notCbVars

\* lines 97-106: the operation raised an exception of self.exceptions and the
\* retry budget is not used up: the task sleeps before the next attempt
Execute_Backoff(c) ==
    /\ calls[c].pc = "running"
    /\ ~stop_after_delay(c)
    /\ calls' = [calls EXCEPT ![c] =
           [@ EXCEPT !.pc = "backoff", !.err = "retryable",
                     !.wake = now + wait_exponential(calls[c].invocations)]]
    /\ UNCHANGED <<state, last_failure_time, success_count, now, lastChange>>
    /\ UNCHANGED notCbVars

\* lines 97-106: the sleep is over, the operation is invoked again
Execute_Retry(c) ==
    /\ calls[c].pc = "backoff"
    /\ now >= calls[c].wake
    /\ calls' = [calls EXCEPT ![c] =
           [@ EXCEPT !.pc = "running", !.invocations = @ + 1, !.wake = 0]]
    /\ UNCHANGED <<state, last_failure_time, success_count, now, lastChange>>
    /\ UNCHANGED notCbVars

\* lines 97-106, 122-150: the operation raised an exception of
\* self.exceptions after max_delay: reraise=True hands it to the except block
Execute_GiveUp(c) ==
    /\ calls[c].pc = "running"
    /\ stop_after_delay(c)
    /\ Except(c, "retryable")

\* lines 97-106, 122-150: the operation raised an exception that is not in
\* self.exceptions: it is not retried and reaches the except block
Execute_Fatal(c) ==
    /\ calls[c].pc = "running"
    /\ Except(c, "fatal")

\* time passes
Tick ==
    /\ now < MaxTime
    /\ now' = now + 1
    /\ UNCHANGED <<state, last_failure_time, success_count, calls, lastChange>>
    /\ UNCHANGED notCbVars

CBInit ==
    /\ state = "closed"
    /\ last_failure_time = 0
    /\ success_count = 0
    /\ now = 0
    /\ calls = [c \in Callers |-> IdleCall]
    /\ lastChange = <<>>

DCInit ==
    /\ dcIn = [called |-> FALSE]
    /\ dcOut = [status |-> "none"]
    /\ mqttCalls = 0

\* no approval question asked; the configuration of the tests
APIdle ==
    /\ apRules = <<>>
    /\ apFlag = TRUE
    /\ apAsk = [kind |-> "none"]

\* MQTTClient.__init__, lines 16-28: two closed breakers, no call made
MQInit ==
    /\ mqBreakers = [b \in {"publish", "subscribe"} |->
           [state |-> "closed", last_failure_time |-> 0, success_count |-> 0]]
    /\ mqNow = 0
    /\ mqCalls = [c \in Callers |->
           [pc |-> "idle", op |-> "publish", outcome |-> "none",
            start |-> 0, invocations |-> 0, wake |-> 0]]

\* homey MQTTClient.__init__, lines 8-12: not connected, nothing sent;
\* app.core MQTTClient.__init__, lines 30-36: client.connect and loop_start
\* have been called
LCInit ==
    /\ lcHomey = [connected |-> FALSE, link |-> "down", transport |-> 0]
    /\ lcCore = [link |-> "up", loop |-> TRUE, transport |-> 2]
    /\ lcLast = [client |-> "none", op |-> "none", n |-> 0]

\* CoordinatorAgent.process has not been called
COInit == coRun = [called |-> FALSE]

\* confirmation ids the chat flow hands out in one behaviour
MaxConfirmations == 2

ConfirmationIds == 1..MaxConfirmations

\* backend main.py, line 43: pending_confirmations = {}
CHInit ==
    /\ chPending = [id \in ConfirmationIds |-> "absent"]
    /\ chWait = [id \in ConfirmationIds |->
                    [status |-> "none", resolutions |-> 0]]
    /\ chLast = [kind |-> "none"]

Init == CBInit /\ DCInit /\ APIdle /\ MQInit /\ LCInit /\ COInit /\ CHInit

Next ==
    \/ \E c \in Callers : Execute_Reject(c)
    \/ \E c \in Callers : Execute_Admit(c)
    \/ \E c \in Callers : Execute_Success(c)
    \/ \E c \in Callers : Execute_Backoff(c)
    \/ \E c \in Callers : Execute_Retry(c)
    \/ \E c \in Callers : Execute_GiveUp(c)
    \/ \E c \in Callers : Execute_Fatal(c)
    \/ Tick

Spec == Init /\ [][Next]_vars

\* ========================================================= DeviceController

\* config.openai.devices: the ids of the configured devices
Devices == {"light_1", "light_2"}

\* values of an action's device_id; "" stands for an absent (None) field
DeviceIds == Devices \cup {"ghost", ""}

\* values of an action's action name; "" stands for an absent (None) field
ActionNames == {"turn_on", ""}

\* values of an action's params; "" stands for an absent field, which
\* _execute_action replaces by {} (line 131)
ParamValues == {"given", ""}

ActionRequests ==
    [device_id : DeviceIds, action : ActionNames, params : ParamValues]

\* what the messaging client would do with a command if it were given one:
\* carry it out, raise, reject it because a breaker is open, or return an
\* error status
ClientConditions == {"ok", "raises", "breaker_open", "error_status"}

Batches == UNION {[1..n -> ActionRequests] : n \in 0..MaxActions}

\* BaseAgent.execute_device_action is a coroutine function and _execute_action
\* calls it without await: the call builds a coroutine object that is never
\* run, so it makes no call on the messaging client and raises nothing
execute_device_action_calls == 0

\* _execute_action without the check of line 133
execute_action_unchecked(a) ==
    IF a.device_id \notin Devices
    THEN [device_id |-> a.device_id, status |-> "error",
          error |-> "Device not found"]
    ELSE [device_id |-> a.device_id, status |-> "success",
          message |-> "Successfully executed"]

\* _execute_action together with the try/except of process around it
execute_action(a) ==
    IF a.device_id = "" \/ a.action = ""
    THEN [device_id |-> a.device_id, status |-> "error",
          error |-> "Missing required action parameters"]
    ELSE IF a.device_id \notin Devices
    THEN [device_id |-> a.device_id, status |-> "error",
          error |-> "Device not found"]
    ELSE [device_id |-> a.device_id, status |-> "success",
          message |-> "Successfully executed"]

\* the calls _execute_action makes on the messaging client for one action
action_mqtt_calls(a) ==
    IF a.device_id = "" \/ a.action = "" \/ a.device_id \notin Devices
    THEN 0
    ELSE execute_device_action_calls

\* the loop of process, lines 99-110
RECURSIVE run_actions(_)
run_actions(actions) ==
    IF actions = <<>>
    THEN <<>>
    ELSE <<execute_action(Head(actions))>> \o run_actions(Tail(actions))

\* the calls the loop of process makes on the messaging client
RECURSIVE batch_mqtt_calls(_)
batch_mqtt_calls(actions) ==
    IF actions = <<>> THEN 0
    ELSE action_mqtt_calls(Head(actions)) + batch_mqtt_calls(Tail(actions))

\* lines 112-118 with any() for all()
overall_status_any(results) ==
    IF \E i \in 1..Len(results) : results[i].status = "success"
    THEN "success"
    ELSE "error"

\* lines 112-118: the top-level status of a non-empty batch
overall_status(results) ==
    IF \A i \in 1..Len(results) : results[i].status = "success"
    THEN "success"
    ELSE "error"

\* process answering an empty batch with an empty success
process_empty_ok(actions, requires_confirmation) ==
    IF actions = <<>>
    THEN [status |-> "success", results |-> <<>>]
    ELSE [status |-> overall_status(run_actions(actions)),
          results |-> run_actions(actions)]

\* DeviceController.process; input_data["requires_confirmation"] is not read
process(actions, requires_confirmation) ==
    IF actions = <<>>
    THEN [status |-> "error", error |-> "No actions provided"]
    ELSE [status |-> overall_status(run_actions(actions)),
          results |-> run_actions(actions)]

\* line 91: input_data.get("actions", [])
get_actions(has_actions, actions) == IF has_actions THEN actions ELSE <<>>

\* one call of process; the result does not depend on the condition of the
\* messaging client, which process never reaches
Process ==
    /\ ~dcIn.called
    /\ \E actions \in Batches, requires_confirmation \in BOOLEAN,
          client \in ClientConditions, has_actions \in BOOLEAN :
        /\ ~has_actions => actions = <<>>
        /\ dcIn' = [called |-> TRUE, has_actions |-> has_actions,
                    actions |-> actions,
                    requires_confirmation |-> requires_confirmation,
                    client |-> client]
        /\ dcOut' = process(get_actions(has_actions, actions),
                            requires_confirmation)
        /\ mqttCalls' = batch_mqtt_calls(get_actions(has_actions, actions))
        /\ UNCHANGED notDcVars

DCNext == Process

SpecDC == Init /\ [][DCNext]_vars

\* ========================================================== approval policy

ApDevices == {"thermostat", "Thermostat"}
ApActions == {"set_temperature", "turn_on"}

\* the entries of config["auto_approval"]
ApprovalRules == [apparaat : ApDevices, actie : ApActions]

RuleLists == UNION {[1..n -> ApprovalRules] : n \in 0..MaxRules}

Proposals == [device : ApDevices, action : ApActions]

\* the fields of an intent that _needs_confirmation reads; confidence is
\* "low" below 0.8 and "high" otherwise
Intents == [confidence : {"low", "high"}, type : {"control", "query"},
            value : {"on", "off"}]

\* _can_auto_approve with or for and
RECURSIVE can_auto_approve_either(_, _)
can_auto_approve_either(rules, proposal) ==
    IF rules = <<>>
    THEN FALSE
    ELSE IF \/ Head(rules).apparaat = proposal.device
            \/ Head(rules).actie = proposal.action
    THEN TRUE
    ELSE can_auto_approve_either(Tail(rules), proposal)

\* CoordinatorAgent._can_auto_approve: the loop over auto_approval_rules
RECURSIVE can_auto_approve(_, _)
can_auto_approve(rules, proposal) ==
    IF rules = <<>>
    THEN FALSE
    ELSE IF /\ Head(rules).apparaat = proposal.device
            /\ Head(rules).actie = proposal.action
    THEN TRUE
    ELSE can_auto_approve(Tail(rules), proposal)

\* HomeyAssistant._needs_confirmation
needs_confirmation(require_confirmation, intent) ==
    IF require_confirmation THEN TRUE
    ELSE IF intent.confidence = "low" THEN TRUE
    ELSE IF intent.type = "control" /\ intent.value = "off" THEN TRUE
    ELSE FALSE

\* CoordinatorAgent.process, line 33: is the proposal auto-approved?
AskAutoApprove ==
    \E proposal \in Proposals :
        /\ apAsk' = [kind |-> "auto_approve", proposal |-> proposal,
                     answer |-> can_auto_approve(apRules, proposal)]
        /\ UNCHANGED <<apRules, apFlag>>
        /\ UNCHANGED notApVars

\* a call of HomeyAssistant._needs_confirmation
AskNeedsConfirmation ==
    \E intent \in Intents :
        /\ apAsk' = [kind |-> "needs_confirmation", intent |-> intent,
                     answer |-> needs_confirmation(apFlag, intent)]
        /\ UNCHANGED <<apRules, apFlag>>
        /\ UNCHANGED notApVars

\* the configuration is read once: any rule list, either value of the flag
APInit ==
    /\ apRules \in RuleLists
    /\ apFlag \in BOOLEAN
    /\ apAsk = [kind |-> "none"]

InitAP ==
    CBInit /\ DCInit /\ APInit /\ MQInit /\ LCInit /\ COInit /\ CHInit

APNext == AskAutoApprove \/ AskNeedsConfirmation

SpecAP == InitAP /\ [][APNext]_vars

\* ------------------------------------------------------------------ C17
\* C17: the auto-approval answer is true exactly when some configured rule
\* has apparaat equal to the proposal's device and actie equal to its action;
\* with no rules it is false.
C17_AutoApproveIffRule ==
    apAsk.kind = "auto_approve" =>
        /\ apAsk.answer
             <=> \E i \in 1..Len(apRules) :
                    /\ apRules[i].apparaat = apAsk.proposal.device
                    /\ apRules[i].actie = apAsk.proposal.action
        /\ apRules = <<>> => ~apAsk.answer

\* the second rule matched after a first rule that shares only the action
C17_Witness ==
    /\ apAsk.kind = "auto_approve"
    /\ apAsk.answer
    /\ Len(apRules) = 2
    /\ apRules[1].apparaat # apAsk.proposal.device
    /\ apRules[1].actie = apAsk.proposal.action
    /\ apRules[2].apparaat = apAsk.proposal.device
    /\ apRules[2].actie = apAsk.proposal.action

\* ------------------------------------------------------------------ C18
\* C18: with require_confirmation set, no proposal is auto-approved, not even
\* one that matches a rule, and every intent needs confirmation.
C18_FlagForcesConfirmation ==
    apFlag =>
        /\ apAsk.kind = "auto_approve" => ~apAsk.answer
        /\ apAsk.kind = "needs_confirmation" => apAsk.answer

\* =============================================================== MQTTClient

Operations == {"publish", "subscribe"}

\* what the paho client does when _publish or _subscribe calls it: it
\* returns, or raises an exception of the breaker's exceptions
\* (ConnectionError, TimeoutError), or raises another exception
TransportOutcomes == {"returns", "ConnectionError", "Exception"}

\* every operation behind the publish breaker
breaker_of_shared(op) == "publish"

\* lines 66 and 86: publish runs in publish_breaker, subscribe in
\* subscribe_breaker
breaker_of(op) == op

OtherBreaker(b) == IF b = "publish" THEN "subscribe" ELSE "publish"

\* an except clause that logs the error and returns
client_raises_swallowed(e) == "returned"

\* lines 71-77 and 91-97: the error of the breaker is logged and raised again
client_raises(e) == e

\* _should_try_half_open of breaker record br at time t
br_should_try_half_open(br, t) ==
    IF br.state = "open"
    THEN t - br.last_failure_time >= open_timeout
    ELSE FALSE

\* execute, lines 84-86: the breaker after the entry check has let a call in
br_enter(br, t) ==
    IF br.state = "open" THEN [br EXCEPT !.state = "half-open"] ELSE br

\* execute, lines 122-148: the breaker after the except block
br_except(br, t) ==
    [state |-> "open", last_failure_time |-> t, success_count |-> 0]

\* does the attempt that met transport outcome out leave the retry loop?
\* _publish and _subscribe are plain functions returning None, so after a
\* transport call that returns, "await func(...)" raises TypeError, which is
\* not retried, like any other exception outside self.exceptions; a
\* ConnectionError is retried until stop_after_delay
mq_attempt_fails(out, started) ==
    out # "ConnectionError" \/ mqNow - started >= max_delay

\* publish / subscribe on a breaker that is open inside its timeout
MQ_Reject(c, op) ==
    /\ mqCalls[c].pc \in {"idle", "done"}
    /\ mqBreakers[breaker_of(op)].state = "open"
    /\ ~br_should_try_half_open(mqBreakers[breaker_of(op)], mqNow)
    /\ mqCalls' = [mqCalls EXCEPT ![c] =
           [pc |-> "done", op |-> op,
            outcome |-> client_raises("CircuitBreakerOpen"),
            start |-> 0, invocations |-> 0, wake |-> 0]]
    /\ UNCHANGED <<mqBreakers, mqNow>>
    /\ UNCHANGED notMqVars

\* publish / subscribe let in by the breaker: the transport is called once;
\* the call then sleeps before a retry or ends in the except block
MQ_Begin(c, op, out) ==
    LET b == breaker_of(op)
        br == br_enter(mqBreakers[b], mqNow)
    IN /\ mqCalls[c].pc \in {"idle", "done"}
       /\ mqBreakers[b].state = "open"
             => br_should_try_half_open(mqBreakers[b], mqNow)
       /\ IF mq_attempt_fails(out, mqNow)
          THEN /\ mqBreakers' = [mqBreakers EXCEPT ![b] = br_except(br, mqNow)]
               /\ mqCalls' = [mqCalls EXCEPT ![c] =
                      [pc |-> "done", op |-> op,
                       outcome |-> client_raises("CircuitBreakerError"),
                       start |-> 0, invocations |-> 1, wake |-> 0]]
          ELSE /\ mqBreakers' = [mqBreakers EXCEPT ![b] = br]
               /\ mqCalls' = [mqCalls EXCEPT ![c] =
                      [pc |-> "backoff", op |-> op, outcome |-> "none",
                       start |-> mqNow, invocations |-> 1,
                       wake |-> mqNow + wait_exponential(1)]]
       /\ UNCHANGED mqNow
       /\ UNCHANGED notMqVars

\* the sleep of the retry loop is over: the transport is called again
MQ_Wake(c, out) ==
    LET b == breaker_of(mqCalls[c].op)
        n == mqCalls[c].invocations + 1
    IN /\ mqCalls[c].pc = "backoff"
       /\ mqNow >= mqCalls[c].wake
       /\ IF mq_attempt_fails(out, mqCalls[c].start)
          THEN /\ mqBreakers' =
                      [mqBreakers EXCEPT ![b] = br_except(mqBreakers[b], mqNow)]
               /\ mqCalls' = [mqCalls EXCEPT ![c] =
                      [@ EXCEPT !.pc = "done", !.invocations = n,
                                !.outcome = client_raises("CircuitBreakerError"),
                                !.start = 0, !.wake = 0]]
          ELSE /\ UNCHANGED mqBreakers
               /\ mqCalls' = [mqCalls EXCEPT ![c] =
                      [@ EXCEPT !.invocations = n,
                                !.wake = mqNow + wait_exponential(n)]]
       /\ UNCHANGED mqNow
       /\ UNCHANGED notMqVars

\* the clock of the client runs until one tick after a breaker that opened
\* at time 0 has reached its timeout
MQHorizon == open_timeout + 1

\* time passes
MQ_Tick ==
    /\ mqNow < MQHorizon
    /\ mqNow' = mqNow + 1
    /\ UNCHANGED <<mqBreakers, mqCalls>>
    /\ UNCHANGED notMqVars

MQNext ==
    \/ \E c \in Callers, op \in Operations : MQ_Reject(c, op)
    \/ \E c \in Callers, op \in Operations, out \in TransportOutcomes :
          MQ_Begin(c, op, out)
    \/ \E c \in Callers, out \in TransportOutcomes : MQ_Wake(c, out)
    \/ MQ_Tick

SpecMQ == Init /\ [][MQNext]_vars

\* task c enters publish or subscribe in this step
MQBegins(c) == mqCalls[c].pc \in {"idle", "done"} /\ mqCalls'[c] # mqCalls[c]

\* the breaker of the operation task c is in after this step
MQBreaker(c) == breaker_of(mqCalls'[c].op)

\* ------------------------------------------------------------------ C19
\* C19: a step of a publish call leaves the subscribe breaker as it was, and
\* a step of a subscribe call the publish breaker; and a call that enters
\* while the other breaker is open and its own is not calls the transport.
C19_BreakersIndependent ==
    [][\A c \in Callers :
          mqCalls'[c] # mqCalls[c] =>
             /\ mqBreakers'[OtherBreaker(mqCalls'[c].op)]
                   = mqBreakers[OtherBreaker(mqCalls'[c].op)]
             /\ (/\ MQBegins(c)
                 /\ mqBreakers[OtherBreaker(mqCalls'[c].op)].state = "open"
                 /\ mqBreakers[mqCalls'[c].op].state # "open")
                   => /\ mqCalls'[c].invocations = 1
                      /\ mqCalls'[c].outcome # "CircuitBreakerOpen"]_vars

\* publish has opened its breaker; a later subscribe was attempted on the
\* untouched subscribe breaker
C19_Witness ==
    /\ mqBreakers["publish"].state = "open"
    /\ mqBreakers["publish"].last_failure_time > 0
    /\ mqBreakers["subscribe"] =
          [state |-> "closed", last_failure_time |-> 0, success_count |-> 0]
    /\ \E c \in Callers, d \in Callers :
          /\ mqCalls[c].op = "publish"
          /\ mqCalls[c].outcome = "CircuitBreakerError"
          /\ mqCalls[d].op = "subscribe"
          /\ mqCalls[d].pc = "backoff"
          /\ mqCalls[d].invocations >= 1
          /\ mqCalls[d].start >= mqBreakers["publish"].last_failure_time

ParsedIntents == {"None", "Intent"}

\* what the user types at the prompt of _get_approval
Responses == {"ja", "JA", "y", "nee", ""}

\* str.lower on the responses
lower(response) == IF response = "JA" THEN "ja" ELSE response

\* _get_approval, lines 71-77
get_approval(response) == lower(response) \in {"ja", "yes", "y"}

\* _generate_proposal, lines 53-61: the proposal is fixed
generate_proposal == [device |-> "thermostat", action |-> "set_temperature"]

\* _get_device_status, line 51: intent.get("device") on what parse_intent
\* returned; an Intent object has no attribute get
get_device_status_raises(intent) == intent = "Intent"

\* lines 32-43: the proposal is auto-approved, or the user is asked
approve_and_execute(rules, proposal, response) ==
    IF can_auto_approve(rules, proposal)
    THEN [asked |-> FALSE, executed |-> TRUE, result |-> "success"]
    ELSE IF get_approval(response)
         THEN [asked |-> TRUE, executed |-> TRUE, result |-> "success"]
         ELSE [asked |-> TRUE, executed |-> FALSE, result |-> "None"]

\* CoordinatorAgent.process, lines 15-43
coordinator_process(rules, intent, response) ==
    IF intent = "None"
    THEN [asked |-> FALSE, executed |-> FALSE, result |-> "None"]
    ELSE IF get_device_status_raises(intent)
         THEN [asked |-> FALSE, executed |-> FALSE,
               result |-> "AttributeError"]
         ELSE approve_and_execute(rules, generate_proposal, response)

CoProcess ==
    \E intent \in ParsedIntents, response \in Responses :
        /\ coRun' = [called |-> TRUE, intent |-> intent,
                     response |-> response,
                     out |-> coordinator_process(apRules, intent, response)]
        /\ UNCHANGED <<apRules, apFlag>>
        /\ UNCHANGED notCoVars

CONext == CoProcess

SpecCO == InitAP /\ [][CONext]_vars

\* some rule names the device and the action of the proposal
RuleMatches(proposal) ==
    \E i \in 1..Len(apRules) :
        /\ apRules[i].apparaat = proposal.device
        /\ apRules[i].actie = proposal.action

\* ------------------------------------------------------------------ C29
\* C29: process executes the proposal only when a rule matches it or the
\* user, asked, approved it; a proposal without a matching rule that the
\* user declines is not executed and process returns None; a proposal that
\* matches a rule is executed and the user is not asked.
C29_ExecutedOnlyApproved ==
    (coRun.called /\ coRun.intent # "None") =>
        /\ coRun.out.executed
              => \/ RuleMatches(generate_proposal)
                 \/ coRun.out.asked /\ get_approval(coRun.response)
        /\ (~RuleMatches(generate_proposal) /\ ~get_approval(coRun.response))
              => ~coRun.out.executed /\ coRun.out.result = "None"
        /\ RuleMatches(generate_proposal)
              => /\ coRun.out.executed
                 /\ ~coRun.out.asked
                 /\ coRun.out.result = "success"

\* ================================================== chat confirmation flow

\* an entry of pending_confirmations: no entry, a future that is pending, or
\* a future that wait_for has cancelled
FutureStates == {"absent", "pending", "cancelled"}

\* lines 95-103: wait_for has cancelled the future; the except branch
\* yields the timeout event and returns, and the dictionary is not touched
on_timeout(id) == [chPending EXCEPT ![id] = "cancelled"]

\* lines 45-53: the answer to a confirm request: 404 for an id without
\* entry; set_result on a cancelled future raises InvalidStateError, which
\* the framework answers with 500, before the entry is deleted
confirm_action(id) ==
    CASE chPending[id] = "absent" ->
            [code |-> 404, pending |-> chPending, resolved |-> FALSE]
      [] chPending[id] = "pending" ->
            [code |-> 200, pending |-> [chPending EXCEPT ![id] = "absent"],
             resolved |-> TRUE]
      [] OTHER ->
            [code |-> 500, pending |-> chPending, resolved |-> FALSE]

\* event_generator, lines 68-81: a confirmation message gets a new id and a
\* future, and the generator waits for it
ChatAsk(id) ==
    /\ chWait[id].status = "none"
    /\ \A j \in ConfirmationIds : j < id => chWait[j].status # "none"
    /\ chPending' = [chPending EXCEPT ![id] = "pending"]
    /\ chWait' = [chWait EXCEPT ![id].status = "waiting"]
    /\ UNCHANGED chLast
    /\ UNCHANGED notChVars

\* a POST /confirm/{id}?confirm=...
Confirm(id, confirm) ==
    LET a == confirm_action(id)
    IN /\ chPending' = a.pending
       /\ chWait' = IF a.resolved
                    THEN [chWait EXCEPT ![id] =
                            [status |-> IF confirm THEN "confirmed"
                                                   ELSE "declined",
                             resolutions |-> @.resolutions + 1]]
                    ELSE chWait
       /\ chLast' = [kind |-> "confirm", id |-> id, confirm |-> confirm,
                     was |-> chWait[id].status, code |-> a.code,
                     changed |-> a.pending # chPending]
       /\ UNCHANGED notChVars

\* the 30 seconds of wait_for are over
ChatTimeout(id) ==
    /\ chWait[id].status = "waiting"
    /\ chPending' = on_timeout(id)
    /\ chWait' = [chWait EXCEPT ![id].status = "timeout"]
    /\ UNCHANGED chLast
    /\ UNCHANGED notChVars

CHNext ==
    \/ \E id \in ConfirmationIds : ChatAsk(id)
    \/ \E id \in ConfirmationIds, confirm \in BOOLEAN : Confirm(id, confirm)
    \/ \E id \in ConfirmationIds : ChatTimeout(id)

SpecCH == Init /\ [][CHNext]_vars

\* ------------------------------------------------------------------ C30
\* C30: a confirmation id is resolved at most once; an id whose wait has
\* ended, by a confirm request or by the timeout, has no entry in
\* pending_confirmations; a confirm request for an id that was not waiting
\* is answered with 404 and changes nothing.
C30_ConfirmationOnce ==
    /\ \A id \in ConfirmationIds :
          /\ chWait[id].resolutions <= 1
          /\ chWait[id].status # "waiting" => chPending[id] = "absent"
    /\ (chLast.kind = "confirm" /\ chLast.was # "waiting")
          => chLast.code = 404 /\ ~chLast.changed

\* ===================================================== connect / disconnect

\* lifecycle calls made on the two clients in one behaviour
MaxLifecycleCalls == 4

LifecycleClients == {"homey", "core"}

\* what the broker and the paho client do with a connect call: CONNACK with
\* rc = 0 inside the 0.5 s wait, CONNACK with rc = 0 after it, CONNACK with
\* rc # 0, or client.connect raises
ConnectOutcomes == {"acked", "acked_late", "refused", "raises"}

\* client.disconnect returns or raises
DisconnectOutcomes == {"returns", "raises"}

\* app.core MQTTClient.disconnect, lines 104-107: loop_stop and
\* client.disconnect are called whatever the state of the client
core_disconnect(c) ==
    [link |-> "down", loop |-> FALSE, transport |-> c.transport + 2]

\* homey MQTTClient.connect, lines 53-71
homey_connect(h, out) ==
    IF h.connected THEN h
    ELSE CASE out = "raises" ->
                [h EXCEPT !.connected = FALSE, !.transport = @ + 1]
           [] out = "acked" ->
                [connected |-> TRUE, link |-> "up",
                 transport |-> h.transport + 2]
           [] out = "acked_late" ->
                [connected |-> FALSE, link |-> "connecting",
                 transport |-> h.transport + 2]
           [] OTHER ->
                [connected |-> FALSE, link |-> "down",
                 transport |-> h.transport + 2]

\* homey MQTTClient.disconnect, lines 73-81
homey_disconnect(h, out) ==
    IF ~h.connected THEN h
    ELSE IF out = "raises"
         THEN [h EXCEPT !.transport = @ + 2]
         ELSE [connected |-> FALSE, link |-> "down",
               transport |-> h.transport + 2]

LCCalled(k, op) ==
    lcLast' = [client |-> k, op |-> op, n |-> lcLast.n + 1]

HomeyConnect(out) ==
    /\ lcLast.n < MaxLifecycleCalls
    /\ lcHomey' = homey_connect(lcHomey, out)
    /\ LCCalled("homey", "connect")
    /\ UNCHANGED lcCore
    /\ UNCHANGED notLcVars

HomeyDisconnect(out) ==
    /\ lcLast.n < MaxLifecycleCalls
    /\ lcHomey' = homey_disconnect(lcHomey, out)
    /\ LCCalled("homey", "disconnect")
    /\ UNCHANGED lcCore
    /\ UNCHANGED notLcVars

\* homey _on_connect with rc = 0, lines 27-31: the late CONNACK arrives on
\* the network thread
HomeyOnConnect ==
    /\ lcHomey.link = "connecting"
    /\ lcHomey' = [lcHomey EXCEPT !.connected = TRUE, !.link = "up"]
    /\ UNCHANGED <<lcCore, lcLast>>
    /\ UNCHANGED notLcVars

\* homey _on_disconnect, lines 44-47: the broker drops the connection
HomeyOnDisconnect ==
    /\ lcHomey.link = "up"
    /\ lcHomey' = [lcHomey EXCEPT !.connected = FALSE, !.link = "down"]
    /\ UNCHANGED <<lcCore, lcLast>>
    /\ UNCHANGED notLcVars

CoreDisconnect ==
    /\ lcLast.n < MaxLifecycleCalls
    /\ lcCore' = core_disconnect(lcCore)
    /\ LCCalled("core", "disconnect")
    /\ UNCHANGED lcHomey
    /\ UNCHANGED notLcVars

LCNext ==
    \/ \E out \in ConnectOutcomes : HomeyConnect(out)
    \/ \E out \in DisconnectOutcomes : HomeyDisconnect(out)
    \/ HomeyOnConnect
    \/ HomeyOnDisconnect
    \/ CoreDisconnect

SpecLC == Init /\ [][LCNext]_vars

\* the client counts as connected: the flag of the homey client, the broker
\* link of the app.core client, which keeps no flag
LCConnected(k) ==
    IF k = "homey" THEN lcHomey.connected ELSE lcCore.link # "down"

\* ------------------------------------------------------------------ C21
\* C21: a connect call on a connected client and a disconnect call on a
\* disconnected client make no transport call and leave the client as it
\* was.
C21_Idempotent ==
    [][\A k \in LifecycleClients :
          (/\ lcLast'.n = lcLast.n + 1
           /\ lcLast'.client = k
           /\ \/ lcLast'.op = "connect" /\ LCConnected(k)
              \/ lcLast'.op = "disconnect" /\ ~LCConnected(k))
          => /\ lcHomey' = lcHomey
             /\ lcCore' = lcCore]_vars

\* ==================================================== steps of one execute

\* task c enters execute in this step
Begins(c) == calls[c].pc \in {"idle", "done"} /\ calls'[c] # calls[c]

\* the execute call of task c ends in this step after the operation ran
Ends(c) == calls[c].pc = "running" /\ calls'[c].pc = "done"

InFlight(c) == calls[c].pc \in {"running", "backoff"}

\* ------------------------------------------------------------------- C1
\* C1: a call that enters execute while the breaker is open and less than
\* open_timeout has passed since the last failure ends at once with
\* CircuitBreakerOpen and has not invoked the operation, for every task.
C1_OpenRejects ==
    [][\A c \in Callers :
          (Begins(c) /\ state = "open"
                     /\ now - last_failure_time < open_timeout)
          => /\ calls'[c].pc = "done"
             /\ calls'[c].outcome = "CircuitBreakerOpen"
             /\ calls'[c].invocations = 0]_vars

\* every task has been rejected by the open breaker inside the timeout
C1_Witness ==
    /\ state = "open"
    /\ now - last_failure_time < open_timeout
    /\ \E c \in Callers, d \in Callers :
          /\ c # d
          /\ calls[c].outcome = "CircuitBreakerOpen"
          /\ calls[c].invocations = 0
          /\ calls[d].outcome = "CircuitBreakerOpen"
          /\ calls[d].invocations = 0

\* ------------------------------------------------------------------- C2
\* C2: a call that entered a closed breaker and whose operation never
\* returned a result ends with CircuitBreakerError, and in the state it
\* returns in the breaker is open and last_failure_time is the current time.
C2_FailureOpens ==
    [][\A c \in Callers :
          (Ends(c) /\ calls[c].began = "closed"
                   /\ calls'[c].outcome # "result")
          => /\ calls'[c].outcome = "CircuitBreakerError"
             /\ state' = "open"
             /\ last_failure_time' = now]_vars

\* a call on a closed breaker used up its retries and opened the breaker
C2_Witness ==
    \E c \in Callers :
        /\ calls[c].pc = "done"
        /\ calls[c].began = "closed"
        /\ calls[c].outcome = "CircuitBreakerError"
        /\ calls[c].err = "retryable"
        /\ calls[c].invocations >= 2
        /\ state = "open"
        /\ last_failure_time = now
        /\ lastChange = <<"closed", "open">>

\* ------------------------------------------------------------------- C3
\* C3: a call that enters execute while the breaker is open and at least
\* open_timeout has passed since the last failure makes the breaker
\* half-open and invokes the operation; it is not rejected.
C3_TimeoutAdmits ==
    [][\A c \in Callers :
          (Begins(c) /\ state = "open"
                     /\ now - last_failure_time >= open_timeout)
          => /\ state' = "half-open"
             /\ calls'[c].pc = "running"
             /\ calls'[c].invocations = 1
             /\ calls'[c].outcome # "CircuitBreakerOpen"]_vars

\* a call was admitted exactly open_timeout after the failure
C3_Witness ==
    /\ state = "half-open"
    /\ now - last_failure_time = open_timeout
    /\ lastChange = <<"open", "half-open">>
    /\ \E c \in Callers :
          /\ calls[c].pc = "running"
          /\ calls[c].began = "open"
          /\ calls[c].invocations = 1

\* ------------------------------------------------------------------- C4
\* C4: the counter is 0 when the breaker becomes half-open; a call that
\* succeeds while the breaker is half-open adds one to the counter and leaves
\* the breaker half-open if the counter stays below success_threshold, and
\* otherwise closes the breaker and sets the counter to 0; a half-open
\* breaker is closed by no other step, so by the success_threshold-th success.
C4_SuccessThreshold ==
    [][/\ (state # "half-open" /\ state' = "half-open") => success_count' = 0
       /\ \A c \in Callers :
             (Ends(c) /\ calls'[c].outcome = "result" /\ state = "half-open")
             => IF success_count + 1 < success_threshold
                THEN state' = "half-open" /\ success_count' = success_count + 1
                ELSE state' = "closed" /\ success_count' = 0
       /\ (state = "half-open" /\ state' = "closed")
             => /\ success_count = success_threshold - 1
                /\ \E c \in Callers : Ends(c) /\ calls'[c].outcome = "result"
      ]_vars

\* the success that reached the threshold has closed the half-open breaker
C4_Witness ==
    /\ state = "closed"
    /\ lastChange = <<"half-open", "closed">>
    /\ success_count = 0
    /\ \E c \in Callers : calls[c].outcome = "result" /\ calls[c].pc = "done"

\* ------------------------------------------------------------------- C5
\* C5: a call that fails while the breaker is half-open makes it open, sets
\* the counter to 0 and records the current time as last failure; the
\* recorded time never goes back, and the breaker becomes half-open again
\* only in a step taken at least open_timeout after the recorded time.
C5_TrialFailureReopens ==
    [][/\ \A c \in Callers :
             (Ends(c) /\ calls'[c].outcome # "result" /\ state = "half-open")
             => /\ state' = "open"
                /\ success_count' = 0
                /\ last_failure_time' = now
       /\ last_failure_time' >= last_failure_time
       /\ (state # "half-open" /\ state' = "half-open")
             => now - last_failure_time >= open_timeout
      ]_vars

\* a trial call failed after a counted success and reopened the breaker
C5_Witness ==
    /\ state = "open"
    /\ lastChange = <<"half-open", "open">>
    /\ success_count = 0
    /\ last_failure_time = now
    /\ \E c \in Callers, d \in Callers :
          /\ calls[c].outcome = "CircuitBreakerError"
          /\ calls[c].began \in {"open", "half-open"}
          /\ calls[d].outcome = "result"
          /\ calls[d].began = "open"

\* ------------------------------------------------------------------- C6
\* C6: when the operation raises an error outside the retryable set, the
\* call has invoked the operation once and the step that ends the call leaves
\* state, last_failure_time and success_count as they were.
C6_FatalLeavesBreaker ==
    [][\A c \in Callers :
          (Ends(c) /\ calls'[c].err = "fatal" /\ calls[c].invocations = 1)
          => /\ calls'[c].invocations = 1
             /\ state' = state
             /\ last_failure_time' = last_failure_time
             /\ success_count' = success_count]_vars

\* ------------------------------------------------------------------- C7
\* C7: the step in which a call is rejected with CircuitBreakerOpen leaves
\* state, last_failure_time and success_count unchanged.
C7_RejectionNotCounted ==
    [][\A c \in Callers :
          (Begins(c) /\ calls'[c].outcome = "CircuitBreakerOpen")
          => /\ state' = state
             /\ last_failure_time' = last_failure_time
             /\ success_count' = success_count]_vars

\* a call was rejected after the failure and the failure time was kept
C7_Witness ==
    /\ state = "open"
    /\ now > last_failure_time
    /\ now - last_failure_time < open_timeout
    /\ \E c \in Callers :
          /\ calls[c].pc = "done"
          /\ calls[c].outcome = "CircuitBreakerOpen"
          /\ calls[c].began = "open"

\* ------------------------------------------------------------------- C8
\* C8: the breaker changes state only from closed to open, open to
\* half-open, half-open to closed and half-open to open.
C8_Transitions ==
    [][state' # state =>
          <<state, state'>> \in {<<"closed", "open">>,
                                 <<"open", "half-open">>,
                                 <<"half-open", "closed">>,
                                 <<"half-open", "open">>}]_vars

\* ------------------------------------------------------------------- C9
\* C9: while the breaker is half-open at most one trial call, a call that
\* entered execute on the open or half-open breaker, is in flight.
C9_OneTrial ==
    state = "half-open" =>
        Cardinality({c \in Callers :
            InFlight(c) /\ calls[c].began \in {"open", "half-open"}}) <= 1

\* ------------------------------------------------------------------ C10
\* C10: a call of process with a non-empty batch and requires_confirmation
\* set (no batch is auto-approved by process) returns status
\* pending_confirmation with an empty result list and makes no call on the
\* messaging client.
C10_PendingConfirmation ==
    (dcIn.called /\ dcIn.requires_confirmation /\ dcIn.actions # <<>>)
    => /\ dcOut.status = "pending_confirmation"
       /\ "results" \in DOMAIN dcOut
       /\ dcOut.results = <<>>
       /\ mqttCalls = 0


\* ============================================= one call of process, looked at

\* the list process worked on
GivenActions == get_actions(dcIn.has_actions, dcIn.actions)

\* process was called with a non-empty batch
RanBatch == dcIn.called /\ GivenActions # <<>>

\* the action has its device id and its action name
HasRequired(a) == a.device_id # "" /\ a.action # ""

\* the action is complete and names a configured device
ValidAction(a) == HasRequired(a) /\ a.device_id \in Devices

C12_PartialAndFailed ==
    RanBatch =>
        LET ok == {i \in 1..Len(dcOut.results) :
                      dcOut.results[i].status = "success"}
            n == Len(dcOut.results)
        IN /\ (ok # {} /\ Cardinality(ok) < n)
                 => dcOut.status = "partial_success"
           /\ ok = {} => dcOut.status = "failed"

\* ------------------------------------------------------------------ C13
\* C13: process returns one result per action, in order, each with the
\* action's device id; an action that fails (a required field missing, an
\* unknown device, or the messaging client failing on it) has a failed
\* result, and process returns a dictionary.
C13_OneResultPerAction ==
    RanBatch =>
        /\ dcOut.status \in {"success", "error"}
        /\ "results" \in DOMAIN dcOut
        /\ Len(dcOut.results) = Len(GivenActions)
        /\ \A i \in 1..Len(GivenActions) :
              /\ dcOut.results[i].device_id = GivenActions[i].device_id
              /\ (~ValidAction(GivenActions[i]) \/ dcIn.client # "ok")
                    => dcOut.results[i].status = "error"

\* ------------------------------------------------------------------ C14
\* C14: when the messaging client fails (raises, rejects, or returns an
\* error status), no valid action for a known device is reported as success.
C14_ClientFailureRecorded ==
    (RanBatch /\ dcIn.client # "ok") =>
        \A i \in 1..Len(GivenActions) :
            ValidAction(GivenActions[i])
            => /\ dcOut.results[i].status # "success"
               /\ "error" \in DOMAIN dcOut.results[i]

SpecLive ==
    /\ Spec
    /\ WF_vars(Tick)
    /\ \A c \in Callers : WF_vars(Execute_Retry(c))

\* the retry loop of task c invokes the operation again in this step
Retries(c) == calls[c].pc = "backoff" /\ calls'[c].pc = "running"

\* C22: no attempt is begun once max_delay has passed since the call
\* started, and no call waits for ever on an attempt: every attempt of a call
\* is followed by a state in which the call is past it.
C22_Terminates ==
    /\ [][\A c \in Callers :
             Retries(c) => now - calls[c].start < max_delay]_vars
    /\ \A c \in Callers :
          (calls[c].pc = "running") ~> (calls[c].pc # "running")

\* ------------------------------------------------------------------ C23
\* the max_retries argument of __init__ (line 22 stores it, nothing reads it)
max_retries == 1

\* C23: a call invokes the operation at most max_retries + 1 times, and a
\* call whose every attempt raised a retryable error ends with
\* CircuitBreakerError after exactly max_retries + 1 invocations.
C23_MaxRetries ==
    [][\A c \in Callers :
          /\ calls'[c].invocations <= max_retries + 1
          /\ (/\ Ends(c)
              /\ calls'[c].outcome = "CircuitBreakerError"
              /\ calls'[c].err = "retryable")
                => /\ calls'[c].invocations = max_retries + 1
                   /\ state' = "open"]_vars

\* ------------------------------------------------------------------ C24
\* C24: with a success threshold above one, as the default of line 18 is, a
\* call that entered the open breaker after open_timeout and succeeds
\* returns the result and leaves the breaker closed.
C24_FirstSuccessCloses ==
    [][\A c \in Callers :
          (/\ Ends(c)
           /\ calls[c].began = "open"
           /\ calls'[c].outcome = "result")
          => state' = "closed"]_vars

\* ------------------------------------------------------------------ C25
\* C25: a publish whose transport call returns ends without an error of the
\* breaker, has called the transport once, and leaves the publish breaker
\* closed.
C25_PublishSucceeds ==
    [][\A c \in Callers :
          MQ_Begin(c, "publish", "returns")
          => /\ mqCalls'[c].pc = "done"
             /\ mqCalls'[c].invocations = 1
             /\ mqCalls'[c].outcome
                   \notin {"CircuitBreakerError", "CircuitBreakerOpen"}
             /\ mqBreakers'["publish"].state = "closed"]_vars

\* ------------------------------------------------------------------ C26
\* C26: in every reachable state the success counter is at least 0 and less
\* than success_threshold, and it is not 0 only while the breaker is
\* half-open.
C26_CounterRange ==
    /\ success_count >= 0
    /\ success_count < success_threshold
    /\ success_count # 0 => state = "half-open"

\* a success was counted on the half-open breaker, which is still half-open
C26_Witness ==
    /\ state = "half-open"
    /\ success_count = success_threshold - 1
    /\ success_count > 0
    /\ \E c \in Callers :
          /\ calls[c].pc = "done"
          /\ calls[c].outcome = "result"

\* ------------------------------------------------------------------ C27
\* C27: every state-change notification written by _set_state has an old
\* state different from its new state.
C27_NotifyOnChange ==
    lastChange # <<>> => lastChange[1] # lastChange[2]

\* ------------------------------------------------------------------ C28
\* the point after which every invocation succeeds: a failure before it
\* leaves the clock room to reach the open timeout
MayFail == now <= MaxTime - open_timeout

\* the breaker when, from that point on, no invocation fails
RecoverNext ==
    \/ \E c \in Callers : Execute_Reject(c)
    \/ \E c \in Callers : Execute_Admit(c)
    \/ \E c \in Callers : Execute_Success(c)
    \/ \E c \in Callers : Execute_Retry(c)
    \/ \E c \in Callers : MayFail /\ Execute_Backoff(c)
    \/ \E c \in Callers : MayFail /\ Execute_GiveUp(c)
    \/ \E c \in Callers : MayFail /\ Execute_Fatal(c)
    \/ Tick

\* time advances, sleeping tasks are woken, invocations return, and every
\* task that is not in a call calls execute again
SpecRecover ==
    /\ Init
    /\ [][RecoverNext]_vars
    /\ WF_vars(Tick)
    /\ \A c \in Callers :
          /\ WF_vars(Execute_Retry(c))
          /\ WF_vars(Execute_Success(c))
          /\ WF_vars(Execute_Admit(c))

\* C28: when from some point on every invocation succeeds and the tasks keep
\* calling, the breaker becomes closed and stays closed.
C28_EventuallyClosed == <>[](state = "closed")

\* after the last failure the breaker went through half-open and was closed
\* by the successes of the tasks
C28_Witness ==
    /\ ~MayFail
    /\ state = "closed"
    /\ lastChange = <<"half-open", "closed">>
    /\ last_failure_time > 0
    /\ \A c \in Callers :
          calls[c].pc = "done" /\ calls[c].outcome = "result"

TypeOK ==
    /\ state \in States
    /\ last_failure_time \in 0..MaxTime
    /\ success_count \in Nat
    /\ now \in 0..MaxTime
    /\ \A c \in Callers : calls[c].outcome \in Outcomes

====
